---- MODULE Spec2Model ----
\* Swiss Chess Tournament Manager (src/app.py): the session state, the
\* ranking (standings), the pairing engine (swiss_pair, choose_colors), the
\* result recorder (apply_results) and the button handlers that call them.
\*
\* Scores and per-opponent results are kept in half points (1 point = 2), so
\* that 0.5 is the integer 1; the Sonneborn-Berger products are therefore in
\* quarter points.  Both scalings preserve every comparison the code makes.
EXTENDS Integers, Sequences, FiniteSets, TLC

\* players       st.session_state.players: pid -> record, pids are 1..Len
\* rounds        st.session_state.rounds: the rounds generated so far, each a
\*               sequence of boards <<white, black>> or <<pid, None>>
\* round_number  st.session_state.round_number
\* last          how the last button handler ended: "Add", "Generate",
\*               "Submit", or the exception that ended it
\* frame         the locals of a swiss_pair call whose pairing loop is being
\*               followed pass by pass: active, unpaired, pairings
VARIABLES players, rounds, round_number, last, frame

vars == <<players, rounds, round_number, last, frame>>

\* ---------------------------------------------------------------- bounds
\* players registered at most; Generate Next Round clicks at most; games
\* recorded per player at most
MaxPlayers == 4
MaxRounds == 3
MaxGames == 2
\* Generate Next Round clicks at most when no results are ever submitted
MaxPreview == 4

\* ------------------------------------------------------- input alphabets
\* c2.number_input("Rating", 0, 3000, 1200): two representative ratings.
Ratings == {1200, 1500}
\* four pairwise different ratings, for tournaments without rating ties
DistinctRatings == {1500, 1600, 1700, 1800}
\* c1.text_input("Name"): the empty name and a non-empty one.
Names == {"", "p"}
\* Outcome strings apply_results can be handed.  "draw" stands for the
\* selectbox's half-half entry; "2-0" is a string outside the accepted set.
Outcomes == {"1-0", "0-1", "draw", "2-0"}
\* the b of a bye board (w, None)
None == 0
\* result of a helper whose lookup players[pid] raised KeyError
KeyErr == -1

\* ------------------------------------------------------------- helpers
Range(s) == {s[i] : i \in DOMAIN s}

Count(s, c) == Cardinality({i \in DOMAIN s : s[i] = c})

RECURSIVE SumSeq(_)
SumSeq(s) == IF s = <<>> THEN 0 ELSE Head(s) + SumSeq(Tail(s))

RECURSIVE SumOver(_, _)
SumOver(f, S) ==
  IF S = {} THEN 0
  ELSE LET x == CHOOSE y \in S : TRUE IN f[x] + SumOver(f, S \ {x})

\* list.remove(x): drop the first occurrence of x
RECURSIVE Remove(_, _)
Remove(s, x) ==
  IF s = <<>> THEN <<>>
  ELSE IF Head(s) = x THEN Tail(s)
  ELSE <<Head(s)>> \o Remove(Tail(s), x)

\* dict assignment d[k] = v
DictSet(d, k, v) == [x \in DOMAIN d \cup {k} |-> IF x = k THEN v ELSE d[x]]

\* ---------------------------------------------------------- add_player
\* key is the type of the dict key the record is stored under (and of the
\* keys of its results dict): "int" when written by add_player and
\* apply_results, "str" when read back from a JSON document
NewPlayer(rating) ==
  [rating |-> rating, score |-> 0, colors |-> <<>>, opponents |-> <<>>,
   results |-> <<>>, bye |-> FALSE, key |-> "int"]

\* players[pid] with an integer pid finds the record
Has(P, pid) == P[pid].key = "int"

add_player(P, rating) == Append(P, NewPlayer(rating))

\* ----------------------------------------------------------- standings
\* buchholz counting every opponent once, however often met
buchholzDistinct(P, p) ==
  SumOver([q \in DOMAIN P |-> P[q].score], Range(P[p].opponents))

buchholz(P, p) ==
  SumSeq([i \in DOMAIN P[p].opponents |-> P[P[p].opponents[i]].score])

sonneborn(P, p) ==
  SumSeq([i \in DOMAIN P[p].opponents |->
            LET o == P[p].opponents[i] IN
            P[o].score * (IF P[p].key = "int" /\ o \in DOMAIN P[p].results
                          THEN P[p].results[o] ELSE 0)])

direct(P, p) == SumOver(P[p].results, DOMAIN P[p].results)

\* SortKey with the rating column left out of `order`
SortKeyNoRating(P, p, final) ==
  <<P[p].score, buchholz(P, p), sonneborn(P, p)>>
    \o (IF final THEN <<direct(P, p)>> ELSE <<>>)

\* the columns named in `order`, as the row's sort key
SortKey(P, p, final) ==
  <<P[p].score, buchholz(P, p), sonneborn(P, p)>>
    \o (IF final THEN <<direct(P, p)>> ELSE <<>>)
    \o <<P[p].rating>>

\* lexicographic comparison of two keys of the same length
RECURSIVE KeyLess(_, _)
KeyLess(a, b) ==
  IF a = <<>> THEN FALSE
  ELSE IF Head(a) # Head(b) THEN Head(a) < Head(b)
  ELSE KeyLess(Tail(a), Tail(b))

\* position at which row p enters the rows sorted so far: in front of the
\* first row whose key is strictly smaller (ascending=False, ties keep the
\* frame's row order); keys[q] is the sort key of row q
RECURSIVE InsertSorted(_, _, _)
InsertSorted(keys, s, p) ==
  IF s = <<>> THEN <<p>>
  ELSE IF KeyLess(keys[Head(s)], keys[p]) THEN <<p>> \o s
  ELSE <<Head(s)>> \o InsertSorted(keys, Tail(s), p)

\* df.sort_values(by=order, ascending=False) over the first n rows
RECURSIVE SortRows(_, _)
SortRows(keys, n) ==
  IF n = 0 THEN <<>>
  ELSE InsertSorted(keys, SortRows(keys, n - 1), n)

\* the lookup players[o] in the buchholz column raises KeyError
StandingsKeyError(P) ==
  \E p \in DOMAIN P : \E i \in DOMAIN P[p].opponents :
    ~Has(P, P[p].opponents[i])

\* standings(final)["id"].tolist(), when standings returns
standings(P, final) ==
  LET keys == SubSeq([p \in DOMAIN P |-> SortKey(P, p, final)], 1, Len(P))
  IN SortRows(keys, Len(P))

\* what a call standings(final) gives: the exception that ended it ("" when
\* it returned) and the ranked ids
StandingsResult(P, final) ==
  IF StandingsKeyError(P) THEN [error |-> "KeyError", order |-> <<>>]
  ELSE [error |-> "", order |-> standings(P, final)]

\* -------------------------------------------------------- choose_colors
\* `p2 in players[p1]["opponents"]`
HasPlayed(P, p1, p2) == p2 \in Range(P[p1].opponents)

\* choose_colors with >= in place of > in the test of p1's colours
choose_colorsGE(P, p1, p2) ==
  IF HasPlayed(P, p1, p2) THEN [error |-> "ValueError", pair |-> <<p1, p2>>]
  ELSE IF ~Has(P, p2) THEN [error |-> "KeyError", pair |-> <<p1, p2>>]
  ELSE IF Count(P[p1].colors, "W") >= Count(P[p1].colors, "B")
       THEN [error |-> "", pair |-> <<p2, p1>>]
  ELSE [error |-> "", pair |-> <<p1, p2>>]

\* error: the exception that ended the call, "" when it returned
\* pair = (white, black)
choose_colors(P, p1, p2) ==
  IF HasPlayed(P, p1, p2) THEN [error |-> "ValueError", pair |-> <<p1, p2>>]
  ELSE IF ~Has(P, p2) THEN [error |-> "KeyError", pair |-> <<p1, p2>>]
  ELSE IF Count(P[p1].colors, "W") > Count(P[p1].colors, "B")
       THEN [error |-> "", pair |-> <<p2, p1>>]
  ELSE IF Count(P[p2].colors, "W") > Count(P[p2].colors, "B")
       THEN [error |-> "", pair |-> <<p1, p2>>]
  ELSE [error |-> "", pair |-> <<p1, p2>>]

\* ------------------------------------------------------------ swiss_pair
\* ByePlayer scanning the ranked list from the top
ByePlayerTop(P, order, n) ==
  LET open == {i \in 1..n : ~P[order[i]].bye}
  IN IF open = {} THEN None
     ELSE order[CHOOSE i \in open : \A j \in open : i <= j]

\* for pid in reversed(unpaired): first pid whose bye flag is unset, scanning
\* the first n entries of the ranked list from the bottom; None if there is
\* none, KeyErr if a lookup players[pid] fails on the way
RECURSIVE ByePlayer(_, _, _)
ByePlayer(P, order, n) ==
  IF n = 0 THEN None
  ELSE IF ~Has(P, order[n]) THEN KeyErr
  ELSE IF ~P[order[n]].bye THEN order[n]
  ELSE ByePlayer(P, order, n - 1)

\* AwardBye without setting the bye flag
AwardByeNoFlag(P, pid) == [P EXCEPT ![pid].score = @ + 2]

\* AwardBye without the score increment
AwardByeFlagOnly(P, pid) == [P EXCEPT ![pid].bye = TRUE]

\* players[pid]["bye"] = True; players[pid]["score"] += 1
AwardBye(P, pid) ==
  [P EXCEPT ![pid].bye = TRUE, ![pid].score = @ + 2]

\* FindPartner scanning the unpaired list from its end
RECURSIVE FindPartnerLast(_, _, _)
FindPartnerLast(P, p1, unpaired) ==
  IF unpaired = <<>> THEN None
  ELSE IF ~HasPlayed(P, p1, unpaired[Len(unpaired)])
       THEN unpaired[Len(unpaired)]
  ELSE FindPartnerLast(P, p1, SubSeq(unpaired, 1, Len(unpaired) - 1))

\* for p2 in unpaired: first p2 that p1 has not met; None if the scan ends
RECURSIVE FindPartner(_, _, _)
FindPartner(P, p1, unpaired) ==
  IF unpaired = <<>> THEN None
  ELSE IF ~HasPlayed(P, p1, Head(unpaired)) THEN Head(unpaired)
  ELSE FindPartner(P, p1, Tail(unpaired))

\* LoopBody taking p1 without popping it and recording nothing when a
\* partner is found
LoopBodyStuck(P, unpaired, pairings) ==
  LET p1   == Head(unpaired)
      rest == Tail(unpaired)
      p2   == FindPartner(P, p1, rest)
  IN IF ~Has(P, p1)
     THEN [error |-> "KeyError", unpaired |-> rest, pairings |-> pairings]
     ELSE IF p2 = None
     THEN [error |-> "RuntimeError", unpaired |-> rest, pairings |-> pairings]
     ELSE [error |-> "", unpaired |-> unpaired, pairings |-> pairings]

\* one pass of the body of `while len(unpaired) >= 2`: the lists after it
\* and the exception that ended it ("" when the pass completed)
LoopBody(P, unpaired, pairings) ==
  LET p1   == Head(unpaired)
      rest == Tail(unpaired)
      p2   == FindPartner(P, p1, rest)
      c    == choose_colors(P, p1, p2)
  IN IF ~Has(P, p1)
     THEN [error |-> "KeyError", unpaired |-> rest, pairings |-> pairings]
     ELSE IF p2 = None
     THEN [error |-> "RuntimeError", unpaired |-> rest, pairings |-> pairings]
     ELSE IF c.error # ""
     THEN [error |-> c.error, unpaired |-> rest, pairings |-> pairings]
     ELSE [error |-> "", unpaired |-> Remove(rest, p2),
           pairings |-> Append(pairings, c.pair)]

\* while len(unpaired) >= 2: ...   error is "" when the loop ran to its end
RECURSIVE PairLoop(_, _, _)
PairLoop(P, unpaired, pairings) ==
  IF Len(unpaired) < 2 THEN [error |-> "", pairings |-> pairings]
  ELSE LET body == LoopBody(P, unpaired, pairings)
       IN IF body.error # ""
          THEN [error |-> body.error, pairings |-> body.pairings]
          ELSE PairLoop(P, body.unpaired, body.pairings)

\* swiss_pair up to the pairing loop: the session's players after the bye
\* step, the pool and the pairings the loop starts from, and the exception
\* that ended the call before the loop ("" when the loop is reached)
ByeStep(P) ==
  LET players_sorted == standings(P, FALSE)
      pid  == IF Len(players_sorted) % 2 = 1
              THEN ByePlayer(P, players_sorted, Len(players_sorted))
              ELSE None
  IN IF P = <<>> \/ StandingsKeyError(P) \/ pid = KeyErr
     THEN [error |-> "KeyError", players |-> P,
           unpaired |-> <<>>, pairings |-> <<>>]
     ELSE IF pid # None
     THEN [error |-> "", players |-> AwardBye(P, pid),
           unpaired |-> Remove(players_sorted, pid),
           pairings |-> <<<<pid, None>>>>]
     ELSE [error |-> "", players |-> P,
           unpaired |-> players_sorted, pairings |-> <<>>]

\* the session's players after the call, the pairings built, and the
\* exception that ended the call ("" when it returned)
swiss_pair(P) ==
  LET bye  == ByeStep(P)
      loop == PairLoop(bye.players, bye.unpaired, bye.pairings)
  IN IF bye.error # ""
     THEN [players |-> bye.players, pairings |-> <<>>, error |-> bye.error]
     ELSE [players |-> bye.players, pairings |-> loop.pairings,
           error |-> loop.error]

\* --------------------------------------------------------- apply_results
\* ApplyOne without `players[b]["opponents"].append(w)`
ApplyOneNoBack(P, w, b, r) ==
  IF b = None THEN P
  ELSE LET ws == IF r = "1-0" THEN 2 ELSE IF r = "0-1" THEN 0 ELSE 1
           bs == 2 - ws
       IN [P EXCEPT
             ![w] = [@ EXCEPT !.colors = Append(@, "W"),
                              !.opponents = Append(@, b),
                              !.score = @ + ws,
                              !.results = DictSet(@, b, ws)],
             ![b] = [@ EXCEPT !.colors = Append(@, "B"),
                              !.score = @ + bs,
                              !.results = DictSet(@, w, bs)]]

\* ApplyOne without `players[b]["colors"].append("B")`
ApplyOneNoColor(P, w, b, r) ==
  IF b = None THEN P
  ELSE LET ws == IF r = "1-0" THEN 2 ELSE IF r = "0-1" THEN 0 ELSE 1
           bs == 2 - ws
       IN [P EXCEPT
             ![w] = [@ EXCEPT !.colors = Append(@, "W"),
                              !.opponents = Append(@, b),
                              !.score = @ + ws,
                              !.results = DictSet(@, b, ws)],
             ![b] = [@ EXCEPT !.opponents = Append(@, w),
                              !.score = @ + bs,
                              !.results = DictSet(@, w, bs)]]

\* ApplyOne without `players[w]["results"][b] = 0` in the "0-1" branch
ApplyOneWinnerOnly(P, w, b, r) ==
  IF b = None THEN P
  ELSE LET ws == IF r = "1-0" THEN 2 ELSE IF r = "0-1" THEN 0 ELSE 1
           bs == 2 - ws
       IN [P EXCEPT
             ![w] = [@ EXCEPT !.colors = Append(@, "W"),
                              !.opponents = Append(@, b),
                              !.score = @ + ws,
                              !.results = IF r = "0-1" THEN @
                                          ELSE DictSet(@, b, ws)],
             ![b] = [@ EXCEPT !.colors = Append(@, "B"),
                              !.opponents = Append(@, w),
                              !.score = @ + bs,
                              !.results = DictSet(@, w, bs)]]

\* one (w, b, r) entry of the batch
ApplyOne(P, w, b, r) ==
  IF b = None THEN P
  ELSE LET ws == IF r = "1-0" THEN 2 ELSE IF r = "0-1" THEN 0 ELSE 1
           bs == 2 - ws
       IN [P EXCEPT
             ![w] = [@ EXCEPT !.colors = Append(@, "W"),
                              !.opponents = Append(@, b),
                              !.score = @ + ws,
                              !.results = DictSet(@, b, ws)],
             ![b] = [@ EXCEPT !.colors = Append(@, "B"),
                              !.opponents = Append(@, w),
                              !.score = @ + bs,
                              !.results = DictSet(@, w, bs)]]

\* one entry of the batch with the lookups players[w], players[b]: the
\* players after it and the exception that ended it ("" when it completed)
ApplyEntry(P, w, b, r) ==
  IF b = None THEN [players |-> P, error |-> ""]
  ELSE IF ~Has(P, w) THEN [players |-> P, error |-> "KeyError"]
  ELSE IF ~Has(P, b)
       THEN [players |-> [P EXCEPT ![w].colors = Append(@, "W")],
             error |-> "KeyError"]
  ELSE [players |-> ApplyOne(P, w, b, r), error |-> ""]

\* the players after the call and the exception that ended it ("" when it
\* returned)
RECURSIVE apply_results(_, _)
apply_results(P, results) ==
  IF results = <<>> THEN [players |-> P, error |-> ""]
  ELSE LET e == ApplyEntry(P, Head(results)[1], Head(results)[2],
                           Head(results)[3])
       IN IF e.error # "" THEN e
          ELSE apply_results(e.players, Tail(results))

\* ------------------------------------------------------------- handlers
\* the non-bye boards of a round, in board order
RECURSIVE Games(_)
Games(round) ==
  IF round = <<>> THEN <<>>
  ELSE IF Head(round)[2] = None THEN Games(Tail(round))
  ELSE <<Head(round)>> \o Games(Tail(round))

\* results.append((w, b, res)) for every non-bye board of rounds[-1]
ResultsFor(round, res) ==
  [i \in DOMAIN Games(round) |->
     <<Games(round)[i][1], Games(round)[i][2], res[i]>>]

\* the three entries of the Result selectbox
SelectboxOptions == {"1-0", "draw", "0-1"}

\* no swiss_pair call in progress
Idle == [active |-> FALSE, unpaired |-> <<>>, pairings |-> <<>>]

Init ==
  /\ players = <<>>
  /\ rounds = <<>>
  /\ round_number = 0
  /\ last = "init"
  /\ frame = Idle

\* if c5.button("Add"): if name: add_player(...)
AddPlayer ==
  \E name \in Names, rating \in Ratings :
    /\ ~frame.active
    /\ name # ""
    /\ Len(players) < MaxPlayers
    /\ players' = add_player(players, rating)
    /\ last' = "Add"
    /\ UNCHANGED <<rounds, round_number, frame>>

\* if st.button("Generate Next Round"): round_number += 1;
\* rounds.append(swiss_pair())
GenerateNextRound ==
  /\ ~frame.active
  /\ Len(players) >= 2
  /\ round_number < MaxRounds
  /\ LET r == swiss_pair(players) IN
       /\ round_number' = round_number + 1
       /\ players' = r.players
       /\ rounds' = IF r.error = "" THEN Append(rounds, r.pairings) ELSE rounds
       /\ last' = IF r.error = "" THEN "Generate" ELSE r.error
  /\ UNCHANGED frame

\* all players of the pending round can still take one more game
CanRecord(round) ==
  \A i \in DOMAIN round :
    round[i][2] # None =>
      /\ Len(players[round[i][1]].opponents) < MaxGames
      /\ Len(players[round[i][2]].opponents) < MaxGames

\* if st.button("Submit Results"): apply_results(results)
SubmitResults ==
  /\ ~frame.active
  /\ Len(players) >= 2
  /\ rounds # <<>>
  /\ LET round == rounds[Len(rounds)] IN
       /\ CanRecord(round)
       /\ \E res \in [DOMAIN Games(round) -> SelectboxOptions] :
            LET a == apply_results(players, ResultsFor(round, res)) IN
            /\ players' = a.players
            /\ last' = IF a.error = "" THEN "Submit" ELSE a.error
  /\ UNCHANGED <<rounds, round_number, frame>>

Next == AddPlayer \/ GenerateNextRound \/ SubmitResults

Spec == Init /\ [][Next]_vars

\* apply_results called with a batch for the pending round in which at least
\* one outcome is not one of the accepted strings
ApplyMalformed ==
  /\ Len(players) >= 2
  /\ rounds # <<>>
  /\ LET round == rounds[Len(rounds)] IN
       /\ CanRecord(round)
       /\ \E res \in [DOMAIN Games(round) -> Outcomes] :
            /\ \E i \in DOMAIN res : res[i] \notin SelectboxOptions
            /\ LET a == apply_results(players, ResultsFor(round, res)) IN
                 /\ players' = a.players
                 /\ last' = IF a.error = "" THEN "Malformed" ELSE a.error
  /\ UNCHANGED <<rounds, round_number, frame>>

\* round_number += 1; rounds.append(swiss_pair()) run for a session with
\* fewer than 2 players, that is without the test of the Rounds tab
GenerateUnguarded ==
  /\ Len(players) < 2
  /\ round_number < MaxRounds
  /\ LET r == swiss_pair(players) IN
       /\ round_number' = round_number + 1
       /\ players' = r.players
       /\ rounds' = IF r.error = "" THEN Append(rounds, r.pairings) ELSE rounds
       /\ last' = IF r.error = "" THEN "Generate" ELSE r.error
  /\ UNCHANGED frame

NextApi == Next \/ ApplyMalformed \/ GenerateUnguarded

SpecApi == Init /\ [][NextApi]_vars

\* --------------------------------------------------------- Save / Load
\* json.dumps(data): the keys of the players dict and of every results dict
\* are written as strings; tuples are written as lists, None as null
export_snapshot(P, R, n) ==
  [players |-> [p \in DOMAIN P |-> [P[p] EXCEPT !.key = "str"]],
   rounds |-> R, round_number |-> n]

\* json.load(uploaded), uploaded being the document Save Tournament wrote
\* for the current session; the session is replaced by its three entries
LoadSnapshot ==
  LET data == export_snapshot(players, rounds, round_number) IN
  /\ players' = data.players
  /\ rounds' = data.rounds
  /\ round_number' = data.round_number
  /\ last' = "Load"
  /\ UNCHANGED frame

NextSnapshot == Next \/ LoadSnapshot

SpecSnapshot == Init /\ [][NextSnapshot]_vars

\* ------------------------------------- swiss_pair followed pass by pass
\* the Add button pressed with the Rating input left at its default
AddDefault ==
  /\ ~frame.active
  /\ Len(players) < MaxPlayers
  /\ players' = add_player(players, 1200)
  /\ last' = "Add"
  /\ UNCHANGED <<rounds, round_number, frame>>

\* Generate Next Round pressed: round_number += 1 and swiss_pair up to its
\* while loop
BeginGenerate ==
  /\ ~frame.active
  /\ Len(players) >= 2
  /\ round_number < MaxRounds
  /\ round_number' = round_number + 1
  /\ LET bye == ByeStep(players) IN
       /\ players' = bye.players
       /\ frame' = IF bye.error # "" THEN Idle
                   ELSE [active |-> TRUE, unpaired |-> bye.unpaired,
                         pairings |-> bye.pairings]
       /\ last' = IF bye.error # "" THEN bye.error ELSE "Pairing"
  /\ UNCHANGED rounds

\* one pass of the while loop; an exception ends the call
LoopPass ==
  /\ frame.active
  /\ Len(frame.unpaired) >= 2
  /\ LET body == LoopBody(players, frame.unpaired, frame.pairings) IN
       /\ frame' = IF body.error # "" THEN Idle
                   ELSE [active |-> TRUE, unpaired |-> body.unpaired,
                         pairings |-> body.pairings]
       /\ last' = IF body.error # "" THEN body.error ELSE last
  /\ UNCHANGED <<players, rounds, round_number>>

\* the loop test fails: return pairings, and the handler appends the round
EndGenerate ==
  /\ frame.active
  /\ Len(frame.unpaired) < 2
  /\ rounds' = Append(rounds, frame.pairings)
  /\ frame' = Idle
  /\ last' = "Generate"
  /\ UNCHANGED <<players, round_number>>

NextLoop ==
  AddDefault \/ BeginGenerate \/ LoopPass \/ EndGenerate \/ SubmitResults

\* a call in progress keeps running: the script is single-threaded and
\* nothing else is scheduled until the handler ends
SpecLoop ==
  /\ Init
  /\ [][NextLoop]_vars
  /\ WF_vars(LoopPass)
  /\ WF_vars(EndGenerate)

\* ------------------------------------ rounds generated without results
\* the Add button, with the rating drawn from DistinctRatings
AddRated ==
  \E name \in Names, rating \in DistinctRatings :
    /\ ~frame.active
    /\ name # ""
    /\ Len(players) < MaxPlayers
    /\ players' = add_player(players, rating)
    /\ last' = "Add"
    /\ UNCHANGED <<rounds, round_number, frame>>

\* Generate Next Round, pressed again and again without Submit Results
GeneratePreview ==
  /\ ~frame.active
  /\ Len(players) >= 2
  /\ round_number < MaxPreview
  /\ LET r == swiss_pair(players) IN
       /\ round_number' = round_number + 1
       /\ players' = r.players
       /\ rounds' = IF r.error = "" THEN Append(rounds, r.pairings) ELSE rounds
       /\ last' = IF r.error = "" THEN "Generate" ELSE r.error
  /\ UNCHANGED frame

NextPreview == AddRated \/ GeneratePreview

SpecPreview == Init /\ [][NextPreview]_vars

\* ================================================================ claims
\* a step in which Generate Next Round appended a round
Generated == Len(rounds') = Len(rounds) + 1
\* a step in which Generate Next Round ended in an exception
GenerateFailed == /\ round_number' = round_number + 1
                  /\ Len(rounds') = Len(rounds)
\* rounds[-1]
LastRound == rounds[Len(rounds)]
\* the bye boards of a round
Byes(round) == {i \in DOMAIN round : round[i][2] = None}
\* the sum of all scores, in half points
TotalScore(P) == SumSeq([p \in DOMAIN P |-> P[p].score])
\* the players met by p
Met(P, p) == {P[p].opponents[i] : i \in DOMAIN P[p].opponents}

\* C1: no board of a generated round pairs two players one of whom is in
\* the other's opponents history at the time of generation.
C1_NoRepeat ==
  [][Generated =>
       LET round == rounds'[Len(rounds')] IN
       \A i \in DOMAIN round :
         round[i][2] # None =>
           /\ round[i][2] \notin Met(players, round[i][1])
           /\ round[i][1] \notin Met(players, round[i][2])]_vars

\* C1 witness: a round was generated in which a paired player already had
\* an opponent on record that the engine had to avoid.
C1_Witness ==
  /\ last = "Generate"
  /\ \E i \in DOMAIN LastRound :
       /\ LastRound[i][2] # None
       /\ Met(players, LastRound[i][1]) # {}
       /\ Met(players, LastRound[i][2]) # {}

\* C2: when round generation fails, players, rounds and the round counter
\* are what they were before the call.
C2_FailureAtomic ==
  [][GenerateFailed =>
       /\ players' = players
       /\ rounds' = rounds
       /\ round_number' = round_number]_vars

\* C3: generating a round (successfully or not) changes no player's score,
\* bye flag, colors, opponents or results.
C3_PreviewPure ==
  [][(Generated \/ GenerateFailed) => players' = players]_vars

\* C4: every round has at most one bye board, each player is the bye
\* player of at most one round, the bye player of a round carries the bye
\* flag and did not carry it before that round was generated, and a bye flag
\* once set stays set.
C4_ByeUnique ==
  /\ [](/\ \A k \in DOMAIN rounds : Cardinality(Byes(rounds[k])) <= 1
        /\ \A p \in DOMAIN players :
             Cardinality({k \in DOMAIN rounds :
                            \E i \in Byes(rounds[k]) : rounds[k][i][1] = p})
               <= 1
        /\ \A k \in DOMAIN rounds : \A i \in Byes(rounds[k]) :
             players[rounds[k][i][1]].bye)
  /\ [][/\ \A p \in DOMAIN players : players[p].bye => players'[p].bye
        /\ Generated =>
             \A i \in Byes(rounds'[Len(rounds')]) :
               ~players[rounds'[Len(rounds')][i][1]].bye]_vars

\* C4 witness: three rounds have been generated, each with a bye, with
\* games on record: the third bye had to skip the players already flagged.
C4_Witness ==
  /\ Len(rounds) >= 3
  /\ \A k \in 1..3 : Byes(rounds[k]) # {}
  /\ \E p \in DOMAIN players : Len(players[p].opponents) = 2

\* C5: generating a round adds one point per bye of the round and applying
\* its results adds one point per non-bye board, so a round generated and
\* then applied adds (non-bye boards + byes) points in total.
C5_ScoreConservation ==
  [][/\ Generated =>
          TotalScore(players') - TotalScore(players)
            = 2 * Cardinality(Byes(rounds'[Len(rounds')]))
     /\ last' = "Submit" /\ players' # players =>
          TotalScore(players') - TotalScore(players)
            = 2 * Len(Games(LastRound))]_vars

\* C5 witness: the results of a round with a bye and a game were applied
\* right after the round was generated.
C5_Witness ==
  /\ last = "Submit"
  /\ Byes(LastRound) # {}
  /\ Len(Games(LastRound)) >= 1
  /\ \A p \in DOMAIN players : Len(players[p].opponents) <= 1
  /\ TotalScore(players) = 4

C7_MalformedRejected ==
  [][last' = "Malformed" => players' = players]_vars

\* C9: standings lists every player once, in descending lexicographic order
\* of (score, Buchholz, Sonneborn-Berger, direct encounter when final,
\* rating), and players equal on that key keep their registration order.
C9_RankingOrder ==
  \A final \in BOOLEAN :
    LET order == standings(players, final)
        key   == SubSeq([p \in DOMAIN players |->
                           <<players[p].score, buchholz(players, p),
                             sonneborn(players, p)>>
                           \o (IF final THEN <<direct(players, p)>> ELSE <<>>)
                           \o <<players[p].rating>>], 1, Len(players))
    IN /\ Len(order) = Len(players)
       /\ Range(order) = DOMAIN players
       /\ \A i, j \in DOMAIN order :
            i < j =>
              /\ ~KeyLess(key[order[i]], key[order[j]])
              /\ key[order[i]] = key[order[j]] => order[i] < order[j]

\* C9 witness: games are on record, a later-registered player outranks an
\* earlier one, and the direct-encounter column changes the final order.
C9_Witness ==
  /\ \E p \in DOMAIN players : players[p].opponents # <<>>
  /\ standings(players, TRUE) # standings(players, FALSE)
  /\ \E i, j \in DOMAIN players :
       /\ i < j
       /\ KeyLess(SortKey(players, i, FALSE), SortKey(players, j, FALSE))

\* C10: no opponent id occurs twice in any player's opponents sequence.
C10_NoDuplicateOpponents ==
  \A p \in DOMAIN players :
    \A i, j \in DOMAIN players[p].opponents :
      i # j => players[p].opponents[i] # players[p].opponents[j]

\* C11: after loading the document that Save Tournament wrote for the
\* session, rounds and round number are the same, standings gives the same
\* result, and Generate Next Round and Submit Results end as they would have
\* ended without the save and load.
C11_RoundTrip ==
  [][last' = "Load" =>
       /\ rounds' = rounds
       /\ round_number' = round_number
       /\ \A final \in BOOLEAN :
            StandingsResult(players', final) = StandingsResult(players, final)
       /\ Len(players) >= 2 =>
            /\ swiss_pair(players').error = swiss_pair(players).error
            /\ swiss_pair(players').pairings = swiss_pair(players).pairings
            /\ rounds # <<>> =>
                 \A res \in [DOMAIN Games(LastRound) -> SelectboxOptions] :
                   apply_results(players', ResultsFor(LastRound, res)).error
                     = apply_results(players, ResultsFor(LastRound, res)).error
     ]_vars

\* C12: swiss_pair run for fewer than 2 players ends in an exception,
\* appends no round and awards no bye.
C12_TooFewPlayers ==
  [][Len(players) < 2 /\ round_number' = round_number + 1 =>
       /\ last' # "Generate"
       /\ rounds' = rounds
       /\ players' = players]_vars

\* C13: a swiss_pair call that has reached its pairing loop ends, by
\* returning a round or by raising.
C13_Terminates == frame.active ~> ~frame.active

\* C13 witness: the loop is running, has paired two players and still has
\* players to pair, in a tournament with games on record.
C13_Witness ==
  /\ frame.active
  /\ \E i \in DOMAIN frame.pairings : frame.pairings[i][2] # None
  /\ Len(frame.unpaired) >= 2
  /\ \E p \in DOMAIN players : players[p].opponents # <<>>

\* an even number of players, all at score 0 with empty histories and no
\* bye, with pairwise different ratings
FreshEven(P) ==
  /\ Len(P) % 2 = 0
  /\ \A p \in DOMAIN P :
       /\ P[p].score = 0
       /\ P[p].colors = <<>>
       /\ P[p].opponents = <<>>
       /\ ~P[p].bye
  /\ \A p, q \in DOMAIN P : p # q => P[p].rating # P[q].rating

\* the number of players rated above p
RatedAbove(P, p) == Cardinality({q \in DOMAIN P : P[q].rating > P[p].rating})

\* C14: for 2k fresh players with pairwise different ratings the round has
\* exactly k boards and no bye; board i has the player ranked 2i-1 by
\* rating as White and the player ranked 2i as Black.
C14_FirstRound ==
  [][Generated /\ FreshEven(players) =>
       LET round == rounds'[Len(rounds')] IN
       /\ 2 * Len(round) = Len(players)
       /\ \A i \in DOMAIN round :
            /\ round[i][2] # None
            /\ RatedAbove(players, round[i][1]) = 2 * i - 2
            /\ RatedAbove(players, round[i][2]) = 2 * i - 1]_vars

\* C14 witness: a first round was generated for four fresh players whose
\* ratings differ and are not in registration order.
C14_Witness ==
  /\ last = "Generate"
  /\ Len(players) = 4
  /\ FreshEven(players)
  /\ players[1].rating < players[4].rating
  /\ players[3].rating < players[2].rating

\* p has had White strictly more often than Black
WhiteHeavy(P, p) == Count(P[p].colors, "W") > Count(P[p].colors, "B")

\* C15: a round generated for an odd number of players, one of them without
\* a bye so far, has a bye board for the lowest-ranked player (non-final
\* ranking at the start of the call) whose bye flag was unset; that player
\* gains exactly 1 point, has the flag set and is in no other board.
C15_ByeAssignment ==
  [][Generated /\ Len(players) % 2 = 1
       /\ (\E p \in DOMAIN players : ~players[p].bye) =>
       LET order  == standings(players, FALSE)
           pos(p) == CHOOSE k \in DOMAIN order : order[k] = p
           round  == rounds'[Len(rounds')]
       IN \E i \in DOMAIN round :
            /\ round[i][2] = None
            /\ ~players[round[i][1]].bye
            /\ \A q \in DOMAIN players :
                 pos(q) > pos(round[i][1]) => players[q].bye
            /\ players'[round[i][1]].score = players[round[i][1]].score + 2
            /\ players'[round[i][1]].bye
            /\ \A j \in DOMAIN round :
                 j # i => /\ round[j][1] # round[i][1]
                          /\ round[j][2] # round[i][1]]_vars

\* C15 witness: a round with a bye was generated while another player
\* already carried the bye flag and games were on record.
C15_Witness ==
  /\ last = "Generate"
  /\ \E i \in Byes(LastRound) :
       \E q \in DOMAIN players :
         /\ q # LastRound[i][1]
         /\ players[q].bye
         /\ players[q].opponents # <<>>

\* C16: in every pair, if the earlier-ranked player p1 is White-heavy then
\* p1 plays Black and p2 White, otherwise p1 plays White and p2 Black; so a
\* White-heavy player is given White only against a White-heavy opponent.
C16_Colours ==
  [][Generated =>
       LET order  == standings(players, FALSE)
           pos(p) == CHOOSE k \in DOMAIN order : order[k] = p
           round  == rounds'[Len(rounds')]
       IN \A i \in DOMAIN round :
            round[i][2] # None =>
              LET w  == round[i][1]
                  b  == round[i][2]
                  p1 == IF pos(w) < pos(b) THEN w ELSE b
                  p2 == IF pos(w) < pos(b) THEN b ELSE w
              IN /\ IF WhiteHeavy(players, p1)
                    THEN w = p2 /\ b = p1
                    ELSE w = p1 /\ b = p2
                 /\ WhiteHeavy(players, w) => WhiteHeavy(players, b)]_vars

\* C16 witness: a generated round has a board whose two players are both
\* White-heavy, and a board was decided by the colour history.
C16_Witness ==
  /\ last = "Generate"
  /\ \E i \in DOMAIN LastRound :
       /\ LastRound[i][2] # None
       /\ WhiteHeavy(players, LastRound[i][1])
       /\ WhiteHeavy(players, LastRound[i][2])

\* C17: the Buchholz value of a player is the sum of the current scores of
\* the players in the opponents sequence, each as often as it occurs there;
\* every such opponent has a result of 1, 0.5 or 0 on record, and the
\* Sonneborn-Berger value is the sum of opponent score times that result.
C17_TieBreaks ==
  \A p \in DOMAIN players :
    LET times == [q \in DOMAIN players |-> Count(players[p].opponents, q)]
    IN /\ \A q \in Met(players, p) :
            /\ q \in DOMAIN players[p].results
            /\ players[p].results[q] \in {0, 1, 2}
       /\ buchholz(players, p)
            = SumOver([q \in DOMAIN players |-> times[q] * players[q].score],
                      DOMAIN players)
       /\ sonneborn(players, p)
            = SumOver([q \in DOMAIN players |->
                         IF times[q] = 0 THEN 0
                         ELSE times[q] * players[q].score
                                * players[p].results[q]],
                      DOMAIN players)

\* C17 witness: a player with a bye has met the same opponent twice and has
\* non-zero Buchholz and Sonneborn-Berger values.
C17_Witness ==
  \E p \in DOMAIN players :
    /\ players[p].bye
    /\ Len(players[p].opponents) = 2
    /\ Cardinality(Met(players, p)) = 1
    /\ sonneborn(players, p) > 0

\* C18: colors and opponents have the same length for every player; that
\* length grows by one for each game of the round whose results are applied
\* and is changed by nothing else (a bye adds to neither), starting at 0.
C18_HistoryLength ==
  /\ [](\A p \in DOMAIN players :
          Len(players[p].colors) = Len(players[p].opponents))
  /\ [][/\ \A p \in DOMAIN players :
              Len(players'[p].opponents)
                = Len(players[p].opponents)
                  + (IF last' \in {"Submit", "Malformed"}
                     THEN Cardinality({i \in DOMAIN LastRound :
                                         /\ LastRound[i][2] # None
                                         /\ \/ LastRound[i][1] = p
                                            \/ LastRound[i][2] = p})
                     ELSE 0)
        /\ \A q \in DOMAIN players' \ DOMAIN players :
             players'[q].opponents = <<>>]_vars

\* C18 witness: results were applied for a player who had a bye before.
C18_Witness ==
  /\ last = "Submit"
  /\ \E p \in DOMAIN players :
       /\ players[p].bye
       /\ Len(players[p].colors) = 2
       /\ Byes(LastRound) # {}

\* C19: every generated round has each registered player in exactly one
\* board, as one of a pair or as the bye.
C19_CompleteRounds ==
  [][Generated =>
       LET round == rounds'[Len(rounds')] IN
       \A p \in DOMAIN players' :
         Cardinality({i \in DOMAIN round :
                        round[i][1] = p \/ round[i][2] = p}) = 1]_vars

\* C20: b is in a's opponents iff a is in b's, both then have a result on
\* record against the other, and the two results add up to 1 point.
C20_SymmetricRecords ==
  \A a, b \in DOMAIN players :
    /\ b \in Met(players, a) <=> a \in Met(players, b)
    /\ b \in Met(players, a) =>
         /\ b \in DOMAIN players[a].results
         /\ a \in DOMAIN players[b].results
         /\ players[a].results[b] + players[b].results[a] = 2

\* C20 witness: the same pair's result was applied twice with different
\* outcomes.
C20_Witness ==
  \E a, b \in DOMAIN players :
    /\ Count(players[a].opponents, b) = 2
    /\ ~players[a].bye
    /\ players[a].score # 2 * players[a].results[b]

====
